---- MODULE Spec2Model ----
(***************************************************************************)
(* Model of SAT/copilot3.py: the three satisfiability procedures           *)
(* (resolution, dp, dpll) as run one after the other on one formula by     *)
(* process_clause_set, and the index-keyed collection of main_parallel.    *)
(*                                                                         *)
(* Spec     one call of process_clause_set on an arbitrary bounded formula *)
(* SpecPar  main_parallel: submit, out-of-order completion, collection     *)
(***************************************************************************)
EXTENDS Integers, Sequences, FiniteSets, TLC

\* ---------------------------------------------------------------- bounds
\* Longest clause list given to process_clause_set.
MaxClauses == 3
\* Longest list of clause sets given to main_parallel.
MaxSets == 3

\* The variables of the formulas explored; a literal is a nonzero integer.
Vars == {1, 2}
Lits == Vars \cup {-v : v \in Vars}
\* A clause is any set of literals: empty, unit, tautological, full.
Clauses == SUBSET Lits
\* The two-literal clauses over two different variables.
BinaryClauses == {c \in Clauses : Cardinality(c) = 2 /\ \A l \in c : -l \notin c}
\* A formula is a list of clauses (duplicates and any order allowed): every list
\* of at most MaxClauses clauses, and the lists one longer made of two-literal
\* clauses (the shortest inputs on which both trials of a decision fail).
Formulas ==
    UNION {[1..n -> Clauses] : n \in 0..MaxClauses}
        \cup [1..(MaxClauses + 1) -> BinaryClauses]
\* The clause sets main_parallel is run on.
ParFormulas == {<<{1}>>, <<{1}, {-1}>>}

VARIABLES
    \* process_clause_set
    formula,          \* the argument `clauses`
    phase,            \* "resolution", "dp", "dpll", "done"
    res_resolution,   \* results["Resolution"][0], "none" before it is set
    res_dp,           \* results["DP"][0]
    res_dpll,         \* results["DPLL"][0]
    \* resolution
    clauses_set,      \* the working set
    new,              \* the accumulated resolvents
    passes,           \* history: iterations of the while loop started
    \* dp
    dp_clauses,       \* the argument of the current call of dp
    dp_depth,         \* history: recursive calls made so far
    dp_caller,        \* history: [vars, p] of the call that made the current one
    \* dpll
    clauses,          \* the clause list of the current call of dpll
    assignment,       \* the dict the current call of dpll works on
    pc,               \* "call", "unit", "ret", "idle"
    unit_clauses,     \* the unit clauses the loop at line 169 has yet to visit
    ret,              \* the value the call that just ended returned
    stack,            \* the calls suspended at a decision (lines 188, 194)
    last_write,       \* history: the last write of unit propagation / pure literal
    last_decision,    \* history: the last decision that returned
    \* main_parallel
    clause_sets,      \* list(parse_input_file_generator(...))
    par_pc,           \* "submit", "collect", "written"
    futures,          \* index -> [state: "running" | "finished" | "collected", result]
    completed,        \* history: the keys of results in the order they were added
    results,          \* the dict results
    sorted_results    \* the list handed to write_output_file

taskVars == <<formula, phase, res_resolution, res_dp, res_dpll>>
resVars == <<clauses_set, new, passes>>
dpVars == <<dp_clauses, dp_depth, dp_caller>>
dpllVars == <<clauses, assignment, pc, unit_clauses, ret, stack, last_write,
              last_decision>>
parVars == <<clause_sets, par_pc, futures, completed, results, sorted_results>>
vars == <<taskVars, resVars, dpVars, dpllVars, parVars>>

\* ---------------------------------------------------------------- helpers
Abs(lit) == IF lit < 0 THEN -lit ELSE lit

\* The set of the elements of a list.
Range(s) == {s[i] : i \in DOMAIN s}

\* dict with d[var] = value set (a new key, or an existing one overwritten).
Bind(d, var, value) ==
    [x \in DOMAIN d \cup {var} |-> IF x = var THEN value ELSE d[x]]

\* d.update(e)
Update(d, e) ==
    [x \in DOMAIN d \cup DOMAIN e |-> IF x \in DOMAIN e THEN e[x] ELSE d[x]]

EmptyDict == <<>>

\* ---------------------------------------------------------------- resolution
\* Faulty variant, for mutation analysis: the complement stays in cj.
resolve_pair_keep_complement(ci, cj) ==
    {(ci \ {literal}) \cup cj : literal \in {l \in ci : -l \in cj}}

resolve_pair(ci, cj) ==
    {(ci \ {literal}) \cup (cj \ {-literal}) : literal \in {l \in ci : -l \in cj}}

\* The list `pairs` of one pass, as a set (only its members matter).
Pairs(cs) == {p \in cs \X cs : p[1] # p[2]}

\* Every resolvent the for loop of one pass computes.
PassResolvents(cs) == UNION {resolve_pair(p[1], p[2]) : p \in Pairs(cs)}

ResolutionReturn(verdict) ==
    /\ res_resolution' = verdict
    /\ phase' = "dp"
    /\ UNCHANGED <<formula, res_dp, res_dpll, clauses_set, dpVars, dpllVars, parVars>>

\* A pass that computes the empty clause: return False (line 88).
ResolutionRefute ==
    /\ phase = "resolution"
    /\ {} \in PassResolvents(clauses_set)
    /\ passes' = passes + 1
    /\ UNCHANGED new
    /\ ResolutionReturn(FALSE)

\* A pass after which new is a subset of the working set: return True (line 91).
ResolutionFixpoint ==
    /\ phase = "resolution"
    /\ {} \notin PassResolvents(clauses_set)
    /\ (new \cup PassResolvents(clauses_set)) \subseteq clauses_set
    /\ passes' = passes + 1
    /\ new' = new \cup PassResolvents(clauses_set)
    /\ ResolutionReturn(TRUE)

\* A pass that adds clauses: clauses_set.update(new) and loop (line 92).
ResolutionGrow ==
    /\ phase = "resolution"
    /\ {} \notin PassResolvents(clauses_set)
    /\ ~((new \cup PassResolvents(clauses_set)) \subseteq clauses_set)
    /\ passes' = passes + 1
    /\ new' = new \cup PassResolvents(clauses_set)
    /\ clauses_set' = clauses_set \cup new'
    /\ UNCHANGED <<taskVars, dpVars, dpllVars, parVars>>

\* ---------------------------------------------------------------- dp
VarsOf(cl) == {Abs(lit) : lit \in UNION Range(cl)}

\* Faulty variant, for mutation analysis: -p is not removed from cj.
DpResolvent_keep_complement(ci, cj, p) == (ci \ {p}) \cup cj

DpResolvent(ci, cj, p) == (ci \ {p}) \cup (cj \ {-p})

IsTautology(clause) == \E x \in clause : -x \in clause

\* The list `resolvents` of lines 118-125, in the order of the two loops.
DpResolvents(pos, neg, p) ==
    LET n == Len(pos) * Len(neg)
        all == [k \in 1..n |->
                  DpResolvent(pos[((k - 1) \div Len(neg)) + 1],
                              neg[((k - 1) % Len(neg)) + 1], p)]
        NotTautology(c) == ~IsTautology(c)
    IN  SelectSeq(all, NotTautology)

\* new_clauses after line 126 when p is the selected variable.
DpNewClauses(cl, p) ==
    LET HasP(c) == p \in c
        HasNotP(c) == -p \in c
        Neither(c) == p \notin c /\ -p \notin c
    IN  SelectSeq(cl, Neither)
            \o DpResolvents(SelectSeq(cl, HasP), SelectSeq(cl, HasNotP), p)

NoCaller == [vars |-> {}, p |-> 0]

\* dp returns to process_clause_set (line 227), which calls dpll_wrapper (lines
\* 206-208); the locals of dp are gone.
DpReturn(verdict) ==
    /\ res_dp' = verdict
    /\ phase' = "dpll"
    /\ clauses' = formula
    /\ assignment' = EmptyDict
    /\ pc' = "call"
    /\ dp_clauses' = <<>>
    /\ dp_depth' = 0
    /\ dp_caller' = NoCaller
    /\ UNCHANGED <<formula, res_resolution, res_dpll, resVars,
                   unit_clauses, ret, stack, last_write, last_decision, parVars>>

\* Line 104: some clause is empty.
DpEmptyClause ==
    /\ phase = "dp"
    /\ {} \in Range(dp_clauses)
    /\ DpReturn(FALSE)

\* Line 106: no clause left.
DpNoClauses ==
    /\ phase = "dp"
    /\ dp_clauses = <<>>
    /\ DpReturn(TRUE)

\* Lines 109-127: select a variable (any one the set iteration may give first),
\* eliminate it, recurse.  vars_set cannot be empty here (line 110): the list is
\* not empty and none of its clauses is.
DpEliminate ==
    /\ phase = "dp"
    /\ {} \notin Range(dp_clauses)
    /\ dp_clauses # <<>>
    /\ \E p \in VarsOf(dp_clauses) :
          /\ dp_clauses' = DpNewClauses(dp_clauses, p)
          /\ dp_caller' = [vars |-> VarsOf(dp_clauses), p |-> p]
    /\ dp_depth' = dp_depth + 1
    /\ UNCHANGED <<taskVars, resVars, dpllVars, parVars>>

\* ---------------------------------------------------------------- dpll
\* Faulty variant, for mutation analysis: a negative literal is never true.
IsTrue_positive_only(lit, asg) == lit > 0 /\ asg[Abs(lit)]

\* Line 145: the literal is true under the assignment (its variable is assigned).
IsTrue(lit, asg) == (lit > 0 /\ asg[Abs(lit)]) \/ (lit < 0 /\ ~asg[Abs(lit)])

\* Lines 131-152.  The break at line 147 only skips work on a clause that is
\* dropped anyway, so the order in which a clause's literals are visited is
\* not visible in the result.
simplify_clauses(cl, asg) ==
    LET Satisfied(c) == \E lit \in c : Abs(lit) \in DOMAIN asg /\ IsTrue(lit, asg)
        NotSatisfied(c) == ~Satisfied(c)
        kept == SelectSeq(cl, NotSatisfied)
    IN  [i \in 1..Len(kept) |-> {lit \in kept[i] : Abs(lit) \notin DOMAIN asg}]

\* Line 167.
UnitClauses(cl) ==
    LET IsUnit(c) == Cardinality(c) = 1
    IN  SelectSeq(cl, IsUnit)

\* Lines 175-177: the literals whose negation does not occur.
PureLiterals(cl) ==
    LET all_lits == UNION Range(cl)
    IN  {lit \in all_lits : -lit \notin all_lits}

\* The value written for a unit or pure literal (lines 171, 178).
LitValue(lit) == lit > 0

\* Faulty variant, for mutation analysis: the first trial is always True.
FirstTrialValue_always_true(lit) == TRUE

\* The value of the first trial of a decision (line 187).
FirstTrialValue(lit) == lit > 0

\* The value of the second trial (line 193).
SecondTrialValue(lit) == ~(lit > 0)

\* Faulty variant, for mutation analysis: the first trial worked on the
\* caller's dict itself instead of a copy of it.
AfterFailedTrial_alias(caller, trial) == trial

\* The caller's dict after a trial that returned False: the trial worked on
\* assignment.copy() (lines 186, 192), so the caller's dict is untouched.
AfterFailedTrial(caller, trial) == caller

NoWrite == [var |-> 0, value |-> FALSE, before |-> EmptyDict]
NoDecision ==
    [kind |-> "none", lit |-> 0, pre |-> EmptyDict, failed |-> EmptyDict,
     base |-> EmptyDict, succ |-> EmptyDict, out |-> EmptyDict]

\* Line 162: a clause of the simplified list is empty.
DpllEmptyClause ==
    /\ phase = "dpll" /\ pc = "call"
    /\ {} \in Range(simplify_clauses(clauses, assignment))
    /\ pc' = "ret"
    /\ ret' = FALSE
    /\ UNCHANGED <<taskVars, resVars, dpVars, clauses, assignment, unit_clauses,
                   stack, last_write, last_decision, parVars>>

\* Line 164: the simplified list is empty.
DpllNoClauses ==
    /\ phase = "dpll" /\ pc = "call"
    /\ simplify_clauses(clauses, assignment) = <<>>
    /\ pc' = "ret"
    /\ ret' = TRUE
    /\ UNCHANGED <<taskVars, resVars, dpVars, clauses, assignment, unit_clauses,
                   stack, last_write, last_decision, parVars>>

\* Lines 161-168: there are unit clauses; enter the loop of line 169.
DpllUnitPropagate ==
    /\ phase = "dpll" /\ pc = "call"
    /\ LET s == simplify_clauses(clauses, assignment)
       IN  /\ {} \notin Range(s)
           /\ UnitClauses(s) # <<>>
           /\ clauses' = s
           /\ unit_clauses' = UnitClauses(s)
    /\ pc' = "unit"
    /\ UNCHANGED <<taskVars, resVars, dpVars, assignment, ret, stack, last_write,
                   last_decision, parVars>>

\* Lines 170-172: one iteration of the loop; after the last one, the call
\* dpll(clauses, assignment) of line 172, whose result this call returns as it is.
DpllUnitWrite ==
    /\ phase = "dpll" /\ pc = "unit"
    /\ LET lit == CHOOSE l \in Head(unit_clauses) : TRUE
       IN  /\ assignment' = Bind(assignment, Abs(lit), LitValue(lit))
           /\ last_write' = [var |-> Abs(lit), value |-> LitValue(lit),
                             before |-> assignment]
    /\ unit_clauses' = Tail(unit_clauses)
    /\ pc' = IF Tail(unit_clauses) = <<>> THEN "call" ELSE "unit"
    /\ UNCHANGED <<taskVars, resVars, dpVars, clauses, ret, stack, last_decision,
                   parVars>>

\* Lines 175-179: the first pure literal the iteration over all_lits meets (any
\* of them, the order of a set being the implementation's), then the call of
\* line 179, whose result this call returns as it is.
DpllPureLiteral ==
    /\ phase = "dpll" /\ pc = "call"
    /\ LET s == simplify_clauses(clauses, assignment)
       IN  /\ {} \notin Range(s)
           /\ s # <<>>
           /\ UnitClauses(s) = <<>>
           /\ \E lit \in PureLiterals(s) :
                 /\ assignment' = Bind(assignment, Abs(lit), LitValue(lit))
                 /\ last_write' = [var |-> Abs(lit), value |-> LitValue(lit),
                                   before |-> assignment]
           /\ clauses' = s
    /\ UNCHANGED <<taskVars, resVars, dpVars, pc, unit_clauses, ret, stack,
                   last_decision, parVars>>

\* Lines 182-188: the decision literal is the first literal of the first clause
\* (none of its variables is assigned after simplify; which literal a set gives
\* first is the implementation's); first trial on a copy of the assignment.
DpllDecide ==
    /\ phase = "dpll" /\ pc = "call"
    /\ LET s == simplify_clauses(clauses, assignment)
       IN  /\ {} \notin Range(s)
           /\ s # <<>>
           /\ UnitClauses(s) = <<>>
           /\ PureLiterals(s) = {}
           /\ \E lit \in s[1] :
                 /\ stack' = Append(stack,
                        [clauses |-> s, assignment |-> assignment, lit |-> lit,
                         trial |-> 1, value |-> FirstTrialValue(lit),
                         pre |-> assignment, failed |-> EmptyDict,
                         base |-> assignment])
                 /\ assignment' = Bind(assignment, Abs(lit), FirstTrialValue(lit))
           /\ clauses' = s
    /\ UNCHANGED <<taskVars, resVars, dpVars, pc, unit_clauses, ret, last_write,
                   last_decision, parVars>>

Top == stack[Len(stack)]
Pop == SubSeq(stack, 1, Len(stack) - 1)

\* Lines 188-190 and 194-196: the trial returned True; merge and return True.
DpllTrialSucceeded ==
    /\ phase = "dpll" /\ pc = "ret" /\ ret = TRUE
    /\ stack # <<>>
    /\ assignment' = Update(Top.assignment, assignment)
    /\ last_decision' =
          [kind |-> IF Top.trial = 1 THEN "first_ok" ELSE "second_ok",
           lit |-> Top.lit, pre |-> Top.pre, failed |-> Top.failed,
           base |-> Top.base, succ |-> assignment,
           out |-> Update(Top.assignment, assignment)]
    /\ stack' = Pop
    /\ clauses' = Top.clauses
    /\ UNCHANGED <<taskVars, resVars, dpVars, pc, unit_clauses, ret, last_write,
                   parVars>>

\* Lines 191-194: the first trial returned False; second trial on a new copy.
DpllSecondTrial ==
    /\ phase = "dpll" /\ pc = "ret" /\ ret = FALSE
    /\ stack # <<>>
    /\ Top.trial = 1
    /\ LET caller == AfterFailedTrial(Top.assignment, assignment)
       IN  /\ stack' = Append(Pop,
                  [Top EXCEPT !.assignment = caller, !.trial = 2,
                              !.value = SecondTrialValue(Top.lit),
                              !.failed = assignment, !.base = caller])
           /\ assignment' = Bind(caller, Abs(Top.lit), SecondTrialValue(Top.lit))
    /\ clauses' = Top.clauses
    /\ pc' = "call"
    /\ UNCHANGED <<taskVars, resVars, dpVars, unit_clauses, ret, last_write,
                   last_decision, parVars>>

\* Line 197: the second trial returned False too.
DpllBothFailed ==
    /\ phase = "dpll" /\ pc = "ret" /\ ret = FALSE
    /\ stack # <<>>
    /\ Top.trial = 2
    /\ assignment' = AfterFailedTrial(Top.assignment, assignment)
    /\ last_decision' =
          [kind |-> "both_failed", lit |-> Top.lit, pre |-> Top.pre,
           failed |-> Top.failed, base |-> Top.base, succ |-> EmptyDict,
           out |-> AfterFailedTrial(Top.assignment, assignment)]
    /\ stack' = Pop
    /\ clauses' = Top.clauses
    /\ UNCHANGED <<taskVars, resVars, dpVars, pc, unit_clauses, ret, last_write,
                   parVars>>

\* Lines 208-209 and 231-234: the outermost call returned.
DpllWrapperReturn ==
    /\ phase = "dpll" /\ pc = "ret"
    /\ stack = <<>>
    /\ res_dpll' = ret
    /\ phase' = "done"
    /\ pc' = "idle"
    /\ UNCHANGED <<formula, res_resolution, res_dp, resVars, dpVars, clauses,
                   assignment, unit_clauses, ret, stack, last_write, last_decision,
                   parVars>>

\* ---------------------------------------------------------------- process_clause_set
Init ==
    /\ formula \in Formulas
    /\ phase = "resolution"
    /\ res_resolution = "none" /\ res_dp = "none" /\ res_dpll = "none"
    /\ clauses_set = Range(formula)
    /\ new = {}
    /\ passes = 0
    /\ dp_clauses = formula
    /\ dp_depth = 0
    /\ dp_caller = NoCaller
    /\ clauses = <<>>
    /\ assignment = EmptyDict
    /\ pc = "idle"
    /\ unit_clauses = <<>>
    /\ ret = FALSE
    /\ stack = <<>>
    /\ last_write = NoWrite
    /\ last_decision = NoDecision
    /\ clause_sets = <<>>
    /\ par_pc = "off"
    /\ futures = EmptyDict
    /\ completed = <<>>
    /\ results = EmptyDict
    /\ sorted_results = <<>>

Next ==
    \/ ResolutionRefute
    \/ ResolutionFixpoint
    \/ ResolutionGrow
    \/ DpEmptyClause
    \/ DpNoClauses
    \/ DpEliminate
    \/ DpllEmptyClause
    \/ DpllNoClauses
    \/ DpllUnitPropagate
    \/ DpllUnitWrite
    \/ DpllPureLiteral
    \/ DpllDecide
    \/ DpllTrialSucceeded
    \/ DpllSecondTrial
    \/ DpllBothFailed
    \/ DpllWrapperReturn

Spec == Init /\ [][Next]_vars

\* ---------------------------------------------------------------- main_parallel
\* Lines 215-234: what the task submitted for index set_index returns.  The
\* bundle stands for the dict of verdicts and durations; it records the clause
\* list it was computed from and the task that computed it.
process_clause_set(cl, set_index) ==
    <<set_index, [of |-> cl, task |-> set_index]>>

\* sorted(results.keys()): the keys in increasing order.
SortedKeys(d) ==
    CHOOSE s \in [1..Cardinality(DOMAIN d) -> DOMAIN d] :
        \A i, j \in 1..Cardinality(DOMAIN d) : i < j => s[i] < s[j]

\* Faulty variant, for mutation analysis: the results in the order they
\* were stored (the order of the dict itself).
SortedResults_insertion_order(d, stored) == [i \in 1..Len(stored) |-> d[stored[i]]]

\* Line 257.  `stored` is the order in which the keys were added to the dict.
SortedResults(d, stored) ==
    [i \in 1..Cardinality(DOMAIN d) |-> d[SortedKeys(d)[i]]]

\* Lines 250-251: the dict comprehension submits the next clause set; indices
\* are those of enumerate, from 0.
Submit ==
    /\ par_pc = "submit"
    /\ Cardinality(DOMAIN futures) < Len(clause_sets)
    /\ LET idx == Cardinality(DOMAIN futures)
       IN  futures' = Bind(futures, idx,
                          [state |-> "running",
                           result |-> process_clause_set(clause_sets[idx + 1], idx)])
    /\ UNCHANGED <<taskVars, resVars, dpVars, dpllVars, clause_sets, par_pc,
                   completed, results, sorted_results>>

\* Line 252: every clause set is submitted; the loop over as_completed starts.
AllSubmitted ==
    /\ par_pc = "submit"
    /\ Cardinality(DOMAIN futures) = Len(clause_sets)
    /\ par_pc' = "collect"
    /\ UNCHANGED <<taskVars, resVars, dpVars, dpllVars, clause_sets, futures,
                   completed, results, sorted_results>>

\* A worker process ends a task, at any time after its submission and in any
\* order.
TaskFinishes ==
    /\ \E idx \in DOMAIN futures :
          /\ futures[idx].state = "running"
          /\ futures' = [futures EXCEPT ![idx].state = "finished"]
    /\ UNCHANGED <<taskVars, resVars, dpVars, dpllVars, clause_sets, par_pc,
                   completed, results, sorted_results>>

\* Lines 252-254: as_completed yields a finished future; its result is stored
\* under the index the task returned.
Collect ==
    /\ par_pc = "collect"
    /\ \E idx \in DOMAIN futures :
          /\ futures[idx].state = "finished"
          /\ futures' = [futures EXCEPT ![idx].state = "collected"]
          /\ results' = Bind(results, futures[idx].result[1], futures[idx].result[2])
          /\ completed' = Append(completed, futures[idx].result[1])
    /\ UNCHANGED <<taskVars, resVars, dpVars, dpllVars, clause_sets, par_pc,
                   sorted_results>>

\* Lines 257-258: every future was yielded; sort and hand to the writer.
WriteOutput ==
    /\ par_pc = "collect"
    /\ \A idx \in DOMAIN futures : futures[idx].state = "collected"
    /\ sorted_results' = SortedResults(results, completed)
    /\ par_pc' = "written"
    /\ UNCHANGED <<taskVars, resVars, dpVars, dpllVars, clause_sets, futures,
                   completed, results>>

InitPar ==
    /\ clause_sets \in UNION {[1..n -> ParFormulas] : n \in 0..MaxSets}
    /\ par_pc = "submit"
    /\ futures = EmptyDict
    /\ completed = <<>>
    /\ results = EmptyDict
    /\ sorted_results = <<>>
    /\ formula = <<>>
    /\ phase = "off"
    /\ res_resolution = "none" /\ res_dp = "none" /\ res_dpll = "none"
    /\ clauses_set = {}
    /\ new = {}
    /\ passes = 0
    /\ dp_clauses = <<>>
    /\ dp_depth = 0
    /\ dp_caller = NoCaller
    /\ clauses = <<>>
    /\ assignment = EmptyDict
    /\ pc = "idle"
    /\ unit_clauses = <<>>
    /\ ret = FALSE
    /\ stack = <<>>
    /\ last_write = NoWrite
    /\ last_decision = NoDecision

NextPar ==
    \/ Submit
    \/ AllSubmitted
    \/ TaskFinishes
    \/ Collect
    \/ WriteOutput

SpecPar == InitPar /\ [][NextPar]_vars

\* ---------------------------------------------------------------- properties
\* Some truth assignment makes a literal true in every clause.
Satisfiable(f) ==
    \E a \in [Vars -> BOOLEAN] :
        \A i \in DOMAIN f : \E lit \in f[i] : a[Abs(lit)] = (lit > 0)

\* The (partial) assignment makes a literal true in every clause.
SatisfiedBy(f, asg) ==
    \A i \in DOMAIN f :
        \E lit \in f[i] : Abs(lit) \in DOMAIN asg /\ asg[Abs(lit)] = (lit > 0)

ResolutionReturned == phase \in {"dp", "dpll", "done"}
DpReturned == phase \in {"dpll", "done"}
DpllReturned == phase = "done"

\* C1 (as claimed): when process_clause_set has run the three procedures on a
\* formula, resolution, dp and dpll_wrapper gave the same verdict.
C1_Agreement ==
    DpllReturned => (res_resolution = res_dp /\ res_dp = res_dpll)

\* C2 (as claimed): on a formula that contains an empty clause, resolution
\* returns False, and does so in the first pass of its loop; dp returns False;
\* dpll_wrapper returns False.
C2_EmptyClauseUnsat ==
    {} \in Range(formula) =>
        /\ ResolutionReturned => (res_resolution = FALSE /\ passes = 1)
        /\ DpReturned => res_dp = FALSE
        /\ DpllReturned => res_dpll = FALSE

\* C3: when main_parallel hands the results to the writer, the list has one
\* bundle per clause set, and the bundle at position i is the one the task
\* submitted for the i-th clause set produced (none for an empty input),
\* whatever the order in which the tasks finished and were collected.
C3_OrderPreserved ==
    par_pc = "written" =>
        /\ Len(sorted_results) = Len(clause_sets)
        /\ \A i \in 1..Len(clause_sets) :
              sorted_results[i] = process_clause_set(clause_sets[i], i - 1)[2]

\* C3 witness: three clause sets whose results were stored in reverse order.
C3_Witness ==
    /\ par_pc = "written"
    /\ Len(clause_sets) = 3
    /\ completed = <<2, 1, 0>>
    /\ clause_sets[1] # clause_sets[3]

\* C4: dpll_wrapper returns True exactly when the formula is satisfiable; the
\* assignment returned with True makes a literal true in every clause of the
\* formula; for the formula [[v]] it returns True and maps v to True.
C4_DpllContract ==
    DpllReturned =>
        /\ res_dpll = Satisfiable(formula)
        /\ res_dpll => SatisfiedBy(formula, assignment)
        /\ \A v \in Vars :
              formula = <<{v}>> =>
                  (res_dpll /\ v \in DOMAIN assignment /\ assignment[v])

\* C4 witness: dpll_wrapper returned True with an assignment found by the
\* second trial of a decision.
C4_Witness ==
    /\ DpllReturned
    /\ res_dpll = TRUE
    /\ last_decision.kind = "second_ok"
    /\ DOMAIN assignment = Vars

\* C5: dp returns True exactly when the formula is satisfiable, whichever
\* variable each call selects.
C5_DpContract ==
    DpReturned => res_dp = Satisfiable(formula)

\* C5 witness: dp returned False on a formula without an empty clause, so by
\* eliminating variables.
C5_Witness ==
    /\ DpReturned
    /\ res_dp = FALSE
    /\ {} \notin Range(formula)
    /\ Len(formula) = 3

\* C6 (as claimed): the first trial of every decision assigns True to the
\* chosen variable, whatever the polarity of the literal found.
C6_FirstTrialTrue ==
    \A i \in DOMAIN stack : stack[i].trial = 1 => stack[i].value = TRUE

\* C6 (amended): the first trial of a decision assigns the chosen variable the
\* value that makes the literal found true (True for a positive literal, False
\* for a negative one); the second trial assigns the opposite value and is made
\* only after the first trial returned False.
C6_FirstTrialSatisfiesLiteral ==
    \A i \in DOMAIN stack :
        /\ stack[i].trial = 1 =>
              /\ stack[i].value = (stack[i].lit > 0)
              /\ stack[i].failed = EmptyDict
        /\ stack[i].trial = 2 =>
              /\ stack[i].value = ~(stack[i].lit > 0)
              /\ Abs(stack[i].lit) \in DOMAIN stack[i].failed
              /\ stack[i].failed[Abs(stack[i].lit)] = (stack[i].lit > 0)

\* C6 witness: a decision on a negative literal in its second trial: False was
\* tried first and failed, True is tried now.
C6_Witness ==
    \E i \in DOMAIN stack :
        /\ stack[i].trial = 2
        /\ stack[i].lit < 0
        /\ assignment[Abs(stack[i].lit)] = TRUE

\* C7 (as claimed): the variables of the formula a call of dp passes to the
\* recursive call are a strict subset of its own, the selected variable is not
\* among them, and the recursion is no deeper than the number of variables.
C7_DpEliminates ==
    (phase = "dp" /\ dp_depth > 0) =>
        /\ VarsOf(dp_clauses) \subseteq dp_caller.vars
        /\ VarsOf(dp_clauses) # dp_caller.vars
        /\ dp_caller.p \notin VarsOf(dp_clauses)
        /\ dp_depth <= Cardinality(VarsOf(formula))

\* C8: when the first trial of a decision failed and the second succeeded, the
\* second trial started from the assignment as it was before the decision, and
\* the assignment returned is that assignment extended with bindings of the
\* successful trial only: the chosen variable has the second value and a
\* binding made only in the failed trial is absent.  When both trials failed
\* the caller's assignment is as it was before the decision.
C8_BranchIsolation ==
    LET d == last_decision
    IN  /\ d.kind = "second_ok" =>
              /\ d.base = d.pre
              /\ d.out[Abs(d.lit)] = ~(d.lit > 0)
              /\ \A v \in DOMAIN d.pre : v \in DOMAIN d.out /\ d.out[v] = d.pre[v]
              /\ \A v \in DOMAIN d.out \ DOMAIN d.pre :
                    v \in DOMAIN d.succ /\ d.succ[v] = d.out[v]
              /\ \A v \in DOMAIN d.failed \ DOMAIN d.pre :
                    (v \in DOMAIN d.out /\ d.out[v] = d.failed[v])
                        => (v \in DOMAIN d.succ /\ d.succ[v] = d.failed[v])
        /\ d.kind = "both_failed" => d.out = d.pre

\* C8 witness: the second trial succeeded after the first one failed, and the
\* failed trial had bound another variable to a value the result does not hold.
C8_Witness ==
    LET d == last_decision
    IN  /\ d.kind = "second_ok"
        /\ \E v \in DOMAIN d.failed \ {Abs(d.lit)} :
              v \in DOMAIN d.out /\ d.out[v] # d.failed[v]

\* C9 (as claimed): every write of unit propagation or pure-literal elimination
\* binds a variable that the assignment does not hold yet.
C9_WritesAreNew ==
    last_write.var # 0 => last_write.var \notin DOMAIN last_write.before

\* C10: on a formula whose clauses are all non-empty, resolution returns, after
\* no more passes than there are clauses over the variables, and it returns
\* True exactly when the formula is satisfiable.
C10_ResolutionExact ==
    {} \notin Range(formula) =>
        /\ passes <= Cardinality(Clauses)
        /\ ResolutionReturned => res_resolution = Satisfiable(formula)

\* C10 witness: a refutation that took more than one pass.
C10_Witness ==
    /\ ResolutionReturned
    /\ {} \notin Range(formula)
    /\ res_resolution = FALSE
    /\ passes >= 2

====
